---- MODULE Spec2Model ----
(***************************************************************************)
(* Google Docs parser service: POST /parse-doc -> processGoogleDoc ->      *)
(* downloadDoc / convertToHtml / extractStructuredData.                    *)
(*                                                                         *)
(* Strings are sequences of one-character strings (document text and       *)
(* keywords) or of word tokens (error messages, URLs); the JavaScript      *)
(* string methods used by the code are operators over such sequences.      *)
(***************************************************************************)
EXTENDS Integers, Sequences, FiniteSets, TLC

\* ------------------------------------------------------------------------
\* JavaScript string primitives
\* ------------------------------------------------------------------------

\* the characters \s matches / String.prototype.trim strips
Whitespace == {" ", "\t", "\n"}

SetMin(S) == CHOOSE x \in S : \A y \in S : x <= y
SetMax(S) == CHOOSE x \in S : \A y \in S : x >= y

\* one character of String.prototype.toLowerCase (also applied to word tokens)
LowerChar(c) ==
    CASE c = "A" -> "a"
      [] c = "B" -> "b"
      [] c = "X" -> "x"
      [] c = "Unauthorized" -> "unauthorized"
      [] c = "Unexpected" -> "unexpected"
      [] c = "Document" -> "document"
      [] c = "Invalid" -> "invalid"
      [] c = "Failed" -> "failed"
      [] c = "Request" -> "request"
      [] c = "Network" -> "network"
      [] c = "Error" -> "error"
      [] c = "The" -> "the"
      [] c = "Google" -> "google"
      [] c = "Doc" -> "doc"
      [] c = "Docs" -> "docs"
      [] c = "URL" -> "url"
      [] c = "Please" -> "please"
      [] c = "Unable" -> "unable"
      [] c = "ID" -> "id"
      [] c = "DOCX" -> "docx"
      [] c = "HTML" -> "html"
      [] c = "Keywords" -> "keywords"
      [] c = "ENOSPC" -> "enospc"
      [] OTHER -> c

\* s.toLowerCase()
ToLowerCase(s) == [i \in 1..Len(s) |-> LowerChar(s[i])]

\* s.trim()
Trim(s) ==
    LET keep == {i \in 1..Len(s) : s[i] \notin Whitespace}
    IN  IF keep = {} THEN <<>> ELSE SubSeq(s, SetMin(keep), SetMax(keep))

\* s.indexOf(pat): 0-based index of the first occurrence, -1 when there is none
IndexOf(s, pat) ==
    LET hits == {i \in 0..(Len(s) - Len(pat)) :
                    \A j \in 1..Len(pat) : s[i + j] = pat[j]}
    IN  IF hits = {} THEN -1 ELSE SetMin(hits)

\* s.includes(pat)
Includes(s, pat) == IndexOf(s, pat) # -1

\* s.slice(from), from >= 0
Slice(s, from) == IF from >= Len(s) THEN <<>> ELSE SubSeq(s, from + 1, Len(s))

\* s.replace(/\s+/g, ' ')
RECURSIVE ReplaceWsRuns(_)
ReplaceWsRuns(s) ==
    IF s = <<>> THEN <<>>
    ELSE IF s[1] \in Whitespace
         THEN LET rest == {i \in 1..Len(s) : s[i] \notin Whitespace}
              IN  <<" ">> \o (IF rest = {} THEN <<>>
                              ELSE ReplaceWsRuns(SubSeq(s, SetMin(rest), Len(s))))
         ELSE <<s[1]>> \o ReplaceWsRuns(Tail(s))

\* items.join(sep)
RECURSIVE Join(_, _)
Join(items, sep) ==
    IF items = <<>> THEN <<>>
    ELSE IF Len(items) = 1 THEN items[1]
    ELSE items[1] \o sep \o Join(Tail(items), sep)

\* ------------------------------------------------------------------------
\* JavaScript values: t is the typeof / kind, s the characters of a string,
\* a the elements of an array (each a primitive [t, s])
\* ------------------------------------------------------------------------

JsUndefined == [t |-> "undefined", s |-> <<>>, a |-> <<>>]
JsNull == [t |-> "null", s |-> <<>>, a |-> <<>>]
JsNumber(n) == [t |-> "number", s |-> <<n>>, a |-> <<>>]
JsBool(b) == [t |-> "boolean", s |-> <<b>>, a |-> <<>>]
JsString(s) == [t |-> "string", s |-> s, a |-> <<>>]
JsObject == [t |-> "object", s |-> <<>>, a |-> <<>>]
JsArray(a) == [t |-> "array", s |-> <<>>, a |-> a]
Prim(v) == [t |-> v.t, s |-> v.s]

\* ToBoolean(v): undefined, null, 0, false and '' are falsy
Truthy(v) ==
    CASE v.t \in {"undefined", "null"} -> FALSE
      [] v.t = "number" -> v.s # <<"0">>
      [] v.t = "boolean" -> v.s # <<"false">>
      [] v.t = "string" -> v.s # <<>>
      [] OTHER -> TRUE

\* typeof v === 'string'
IsString(v) == v.t = "string"

\* Array.isArray(v)
IsArray(v) == v.t = "array"

\* a || b
JsOr(a, b) == IF Truthy(a) THEN a ELSE b

\* ------------------------------------------------------------------------
\* extractStructuredData: the document
\* ------------------------------------------------------------------------
\* A parsed document is the sequence of the elements $('p, h1, h2, h3, ul,
\* table') selects, in document order.  An element is [tag, parts]; parts are
\* the text-bearing nodes below it in document order, each [kind, text] with
\* kind "li", "th", "td" or "text" (text outside any list item or cell).

selector == {"p", "h1", "h2", "h3", "ul", "table"}

\* $(elem).text(): the concatenated text of every node below the element
RECURSIVE ConcatText(_)
ConcatText(parts) ==
    IF parts = <<>> THEN <<>> ELSE parts[1].text \o ConcatText(Tail(parts))

ElemText(elem) == ConcatText(elem.parts)

\* $elem.find(kinds).each(...): push the trimmed text of each found node unless empty
FindTexts(elem, kinds) ==
    LET found == SelectSeq(elem.parts, LAMBDA p : p.kind \in kinds)
        trimmed == [i \in 1..Len(found) |-> Trim(found[i].text)]
    IN  SelectSeq(trimmed, LAMBDA t : t # <<>>)

\* the ' | ' of items.join(' | ')
Separator == <<" ", "|", " ">>

\* keywords.filter(typeof k === 'string' && k.trim()).map({original, normalized})
normalizedKeywords(keywords) ==
    LET kept == SelectSeq(keywords.a, LAMBDA k : k.t = "string" /\ Trim(k.s) # <<>>)
    IN  [i \in 1..Len(kept) |->
            [original |-> kept[i].s, normalized |-> Trim(ToLowerCase(kept[i].s))]]

\* normalizeText(text)
normalizeText(text) == ToLowerCase(Trim(ReplaceWsRuns(text)))

\* structuredData[key] = value
SetKey(data, key, value) ==
    [k \in (DOMAIN data) \cup {key} |-> IF k = key THEN value ELSE data[k]]

\* structuredData = {}
EmptyData == [k \in {} |-> <<>>]

\* ------------------------------------------------------------------------
\* extractStructuredData: first pass, inline "Keyword: value"
\* ------------------------------------------------------------------------

\* InlineMatch taking the text after the keyword when no colon follows it
InlineMatchNoColon(data, rawText, keyword) ==
    LET lowerText == ToLowerCase(rawText)
        idx == IndexOf(lowerText, keyword.normalized)
        afterKeyword == Slice(rawText, idx + Len(keyword.normalized))
        colonIndex == IndexOf(afterKeyword, <<":">>)
        value == Trim(Slice(afterKeyword, colonIndex + 1))
    IN  IF ~Includes(lowerText, keyword.normalized) THEN data
        ELSE IF value # <<>> THEN SetKey(data, keyword.original, value)
        ELSE data

\* InlineMatch leaving a key that already holds a value as it is
InlineMatchKeepFirst(data, rawText, keyword) ==
    LET lowerText == ToLowerCase(rawText)
        idx == IndexOf(lowerText, keyword.normalized)
        afterKeyword == Slice(rawText, idx + Len(keyword.normalized))
        colonIndex == IndexOf(afterKeyword, <<":">>)
        value == Trim(Slice(afterKeyword, colonIndex + 1))
    IN  IF ~Includes(lowerText, keyword.normalized) THEN data
        ELSE IF colonIndex = -1 THEN data
        ELSE IF value # <<>> /\ keyword.original \notin DOMAIN data
             THEN SetKey(data, keyword.original, value)
        ELSE data

\* body of normalizedKeywords.forEach in the first pass
InlineMatch(data, rawText, keyword) ==
    LET lowerText == ToLowerCase(rawText)
        idx == IndexOf(lowerText, keyword.normalized)
        afterKeyword == Slice(rawText, idx + Len(keyword.normalized))
        colonIndex == IndexOf(afterKeyword, <<":">>)
        value == Trim(Slice(afterKeyword, colonIndex + 1))
    IN  IF ~Includes(lowerText, keyword.normalized) THEN data
        ELSE IF idx = -1 THEN data
        ELSE IF colonIndex = -1 THEN data
        ELSE IF value # <<>> THEN SetKey(data, keyword.original, value)
        ELSE data

RECURSIVE ForEachInline(_, _, _)
ForEachInline(data, rawText, nks) ==
    IF nks = <<>> THEN data
    ELSE ForEachInline(InlineMatch(data, rawText, nks[1]), rawText, Tail(nks))

\* callback of the first $(selector).each
Pass1Elem(data, elem, nks) ==
    LET rawText == Trim(ElemText(elem))
    IN  IF rawText = <<>> THEN data ELSE ForEachInline(data, rawText, nks)

\* ------------------------------------------------------------------------
\* extractStructuredData: second pass, label element then value element
\* ------------------------------------------------------------------------

\* pendingLabel = null
NoLabel == [set |-> FALSE, original |-> <<>>, normalized |-> <<>>]

\* pendingLabel = keyword
LabelOf(keyword) ==
    [set |-> TRUE, original |-> keyword.original, normalized |-> keyword.normalized]

\* ValueText with only the td cells of a table collected
ValueTextTdOnly(elem, rawText) ==
    CASE elem.tag = "ul" -> Join(FindTexts(elem, {"li"}), Separator)
      [] elem.tag = "table" -> Join(FindTexts(elem, {"td"}), Separator)
      [] OTHER -> rawText

\* valueText by element type
ValueText(elem, rawText) ==
    CASE elem.tag = "ul" -> Join(FindTexts(elem, {"li"}), Separator)
      [] elem.tag = "table" -> Join(FindTexts(elem, {"th", "td"}), Separator)
      [] OTHER -> rawText

\* test of the label-detecting forEach for one keyword
IsPureLabel(rawText, normalizedElemText, keyword) ==
    /\ normalizedElemText = keyword.normalized
    /\ ~Includes(rawText, <<":">>)

\* normalizedKeywords.forEach in the second pass: the first matching keyword
RECURSIVE DetectLabel(_, _, _, _)
DetectLabel(pending, rawText, normalizedElemText, nks) ==
    IF nks = <<>> THEN pending
    ELSE DetectLabel(
            IF pending.set THEN pending
            ELSE IF IsPureLabel(rawText, normalizedElemText, nks[1])
                 THEN LabelOf(nks[1]) ELSE pending,
            rawText, normalizedElemText, Tail(nks))

\* RepeatsLabel comparing with the keyword as the caller wrote it
RepeatsOriginal(normalizedElemText, pending) == normalizedElemText = pending.original

\* normalizedElemText === pendingLabel.normalized
RepeatsLabel(normalizedElemText, pending) == normalizedElemText = pending.normalized

\* TakeValue writing the value and keeping the label pending
TakeValueKeepPending(st, elem, rawText) ==
    LET valueText == ValueText(elem, rawText)
    IN  IF valueText # <<>>
        THEN [data |-> SetKey(st.data, st.pending.original, valueText),
              pending |-> st.pending]
        ELSE st

\* TakeValue leaving a key that already holds a value as it is
TakeValueKeepFirst(st, elem, rawText) ==
    LET valueText == ValueText(elem, rawText)
    IN  IF valueText # <<>>
        THEN [data |-> IF st.pending.original \in DOMAIN st.data THEN st.data
                       ELSE SetKey(st.data, st.pending.original, valueText),
              pending |-> NoLabel]
        ELSE st

\* TakeValue writing the value whether or not it is empty
TakeValueUnchecked(st, elem, rawText) ==
    [data |-> SetKey(st.data, st.pending.original, ValueText(elem, rawText)),
     pending |-> NoLabel]

\* the pending branch of the second callback, once the element is no repeat
TakeValue(st, elem, rawText) ==
    LET valueText == ValueText(elem, rawText)
    IN  IF valueText # <<>>
        THEN [data |-> SetKey(st.data, st.pending.original, valueText),
              pending |-> NoLabel]
        ELSE st

\* Pass2Elem looking for a label also in the element it took a value from
Pass2ElemRelabel(st, elem, nks) ==
    LET rawText == Trim(ElemText(elem))
        normalizedElemText == normalizeText(rawText)
        taken == TakeValue(st, elem, rawText)
    IN  IF rawText = <<>> THEN st
        ELSE IF st.pending.set
             THEN IF RepeatsLabel(normalizedElemText, st.pending) THEN st
                  ELSE [data |-> taken.data,
                        pending |-> DetectLabel(taken.pending, rawText,
                                                normalizedElemText, nks)]
             ELSE [data |-> st.data,
                   pending |-> DetectLabel(st.pending, rawText, normalizedElemText, nks)]

\* callback of the second $(selector).each; st = [data, pending]
Pass2Elem(st, elem, nks) ==
    LET rawText == Trim(ElemText(elem))
        normalizedElemText == normalizeText(rawText)
    IN  IF rawText = <<>> THEN st
        ELSE IF st.pending.set
             THEN IF RepeatsLabel(normalizedElemText, st.pending) THEN st
                  ELSE TakeValue(st, elem, rawText)
             ELSE [data |-> st.data,
                   pending |-> DetectLabel(st.pending, rawText, normalizedElemText, nks)]

RECURSIVE Pass1All(_, _, _)
Pass1All(data, dom, nks) ==
    IF dom = <<>> THEN data ELSE Pass1All(Pass1Elem(data, dom[1], nks), Tail(dom), nks)

RECURSIVE Pass2All(_, _, _)
Pass2All(st, dom, nks) ==
    IF dom = <<>> THEN st ELSE Pass2All(Pass2Elem(st, dom[1], nks), Tail(dom), nks)

MsgHtmlNotString == <<"HTML", "must", "be", "a", "string", ".">>
MsgKeywordsNotArray ==
    <<"Keywords", "must", "be", "provided", "as", "an", "array", "of", "strings", ".">>

\* extractStructuredData(html, keywords): [threw, msg, data]; html = [isString, dom]
extractStructuredData(html, keywords) ==
    IF ~html.isString THEN [threw |-> TRUE, msg |-> MsgHtmlNotString, data |-> EmptyData]
    ELSE IF ~IsArray(keywords)
         THEN [threw |-> TRUE, msg |-> MsgKeywordsNotArray, data |-> EmptyData]
    ELSE LET nks == normalizedKeywords(keywords)
             afterFirst == Pass1All(EmptyData, html.dom, nks)
         IN  [threw |-> FALSE, msg |-> <<>>,
              data |-> Pass2All([data |-> afterFirst, pending |-> NoLabel],
                                html.dom, nks).data]

\* ------------------------------------------------------------------------
\* googleDocParser: extractDocId
\* ------------------------------------------------------------------------
\* A URL string is a sequence of tokens: "http", "s", HostPath, "/", " " and
\* other path text ("a", "b", "edit", "x").

HostPath == "://docs.google.com/document/d/"

MsgEmptyUrl == <<"Invalid", "URL", ":", "URL", "must", "be", "a", "non-empty", "string", ".">>
MsgBadDocsUrl ==
    <<"Invalid", "Google", "Docs", "URL", ":", "Unable", "to", "extract", "document", "ID", ".">>

\* where https?://docs.google.com/document/d/ ends when it starts at token i, else 0
PrefixEnd(url, i) ==
    IF i > Len(url) \/ url[i] # "http" THEN 0
    ELSE IF i + 2 <= Len(url) /\ url[i + 1] = "s" /\ url[i + 2] = HostPath THEN i + 3
    ELSE IF i + 1 <= Len(url) /\ url[i + 1] = HostPath THEN i + 2
    ELSE 0

\* the regular expression matches at token i: the prefix, then ([^/]+)
MatchesAt(url, i) ==
    /\ PrefixEnd(url, i) # 0
    /\ PrefixEnd(url, i) <= Len(url)
    /\ url[PrefixEnd(url, i)] # "/"

\* match[1]: the longest run of non-"/" tokens after the prefix of the first match
CaptureId(url) ==
    LET at == SetMin({i \in 1..Len(url) : MatchesAt(url, i)})
        from == PrefixEnd(url, at)
        stops == {j \in from..Len(url) : url[j] = "/"}
        to == IF stops = {} THEN Len(url) ELSE SetMin(stops) - 1
    IN  SubSeq(url, from, to)

\* extractDocId(url): [threw, msg, id]
extractDocId(url) ==
    IF ~IsString(url) \/ Trim(url.s) = <<>>
    THEN [threw |-> TRUE, msg |-> MsgEmptyUrl, id |-> <<>>]
    ELSE IF {i \in 1..Len(url.s) : MatchesAt(url.s, i)} = {}
         THEN [threw |-> TRUE, msg |-> MsgBadDocsUrl, id |-> <<>>]
    ELSE [threw |-> FALSE, msg |-> <<>>, id |-> CaptureId(url.s)]

\* ------------------------------------------------------------------------
\* googleDocParser: downloadDoc
\* ------------------------------------------------------------------------

MsgUnauthorized ==
    <<"Unauthorized", "access", ":", "The", "Google", "Doc", "is", "not", "publicly",
      "accessible", "or", "requires", "authentication", ".">>
MsgUnexpected ==
    <<"Unexpected", "response", "from", "Google", "Docs", ".", "The", "document", "may",
      "not", "be", "publicly", "accessible", "or", "the", "URL", "may", "be", "invalid", ".">>
MsgNotFound ==
    <<"Document", "not", "found", ":", "Please", "verify", "the", "Google", "Docs", "URL", ".">>
MsgFailedDownload(message) ==
    <<"Failed", "to", "download", "document", "from", "Google", "Docs", ":">> \o message
MsgNetwork == <<"Network", "Error">>
MsgNoSpace == <<"ENOSPC", ":", "no", "space", "left", "on", "device">>

StatusText(status) ==
    CASE status = 200 -> "200" [] status = 304 -> "304" [] status = 401 -> "401"
      [] status = 403 -> "403" [] status = 404 -> "404" [] OTHER -> "500"

\* validateStatus(status)
validateStatus(status) == status >= 200 /\ status < 400

\* the DOCX MIME type, alone or with a parameter, and other content types
DocxTypes == {"docx", "docx; charset"}

\* contentType && contentType.includes(DOCX MIME type)
isDocx(contentType) == contentType \in DocxTypes

\* await axios.get(exportUrl, {validateStatus}) for a response [status, ctype]
\* (status 0: no response at all): [rejected, err]; err = [message, response]
\* with response the status of err.response, 0 when err has none
AxiosGet(response) ==
    IF response.status = 0
    THEN [rejected |-> TRUE, err |-> [message |-> MsgNetwork, response |-> 0]]
    ELSE IF ~validateStatus(response.status)
         THEN [rejected |-> TRUE,
               err |-> [message |-> <<"Request", "failed", "with", "status", "code",
                                      StatusText(response.status)>>,
                        response |-> response.status]]
    ELSE [rejected |-> FALSE, err |-> [message |-> <<>>, response |-> 0]]

\* what fs.writeFileSync does: writes the file, throws leaving nothing, or
\* throws leaving a partial file
WriteOutcomes == {"ok", "failed", "partial"}

\* the try block of downloadDoc after the request: [threw, err, file];
\* file is whether tempFilePath exists when the block ends
DownloadTry(response, write) ==
    LET got == AxiosGet(response)
    IN  IF got.rejected THEN [threw |-> TRUE, err |-> got.err, file |-> FALSE]
        ELSE IF response.status = 401 \/ response.status = 403
             THEN [threw |-> TRUE, file |-> FALSE,
                   err |-> [message |-> MsgUnauthorized, response |-> 0]]
        ELSE IF ~isDocx(response.ctype)
             THEN [threw |-> TRUE, file |-> FALSE,
                   err |-> [message |-> MsgUnexpected, response |-> 0]]
        ELSE IF write # "ok"
             THEN [threw |-> TRUE, file |-> (write = "partial"),
                   err |-> [message |-> MsgNoSpace, response |-> 0]]
        ELSE [threw |-> FALSE, file |-> TRUE, err |-> [message |-> <<>>, response |-> 0]]

\* DownloadRethrow that looks at the message only, never at err.response
DownloadRethrowByMessage(err) ==
    IF err.message # <<>> /\ Includes(ToLowerCase(err.message), <<"unauthorized", "access">>)
    THEN err.message
    ELSE MsgFailedDownload(err.message)

\* the error the catch block of downloadDoc throws for the error it caught
DownloadRethrow(err) ==
    IF err.response = 404 THEN MsgNotFound
    ELSE IF err.message # <<>> /\ Includes(ToLowerCase(err.message), <<"unauthorized", "access">>)
         THEN err.message
    ELSE MsgFailedDownload(err.message)

\* ------------------------------------------------------------------------
\* temporary files: fsys = [dirs, files]; a file path is <<dir, docId>>
\* ------------------------------------------------------------------------

\* fs.unlinkSync(path), when the file exists: [fsys, threw]
UnlinkSync(fsys, path, ok) ==
    IF ok THEN [fsys |-> [fsys EXCEPT !.files = @ \ {path}], threw |-> FALSE]
    ELSE [fsys |-> fsys, threw |-> TRUE]

\* fs.rmdirSync(dir), when the directory exists: fails on a non-empty directory
RmdirSync(fsys, dir, ok) ==
    IF ok /\ {f \in fsys.files : f[1] = dir} = {}
    THEN [fsys |-> [fsys EXCEPT !.dirs = @ \ {dir}], threw |-> FALSE]
    ELSE [fsys |-> fsys, threw |-> TRUE]

MsgDeleteFailed == <<"EPERM", ":", "operation", "not", "permitted">>

\* SwallowCleanup letting the error of a failed deletion escape
SwallowCleanupRethrow(threw) == threw

\* try { deletions } catch (_) { }: whether an error thrown inside escapes
SwallowCleanup(threw) == FALSE

\* ProcessCleanup that unlinks the file and leaves the directory
ProcessCleanupFileOnly(fsys, tempFilePath, unlinkOk, rmdirOk) ==
    LET path == tempFilePath.path
        u == IF tempFilePath.set /\ path \in fsys.files
             THEN UnlinkSync(fsys, path, unlinkOk)
             ELSE [fsys |-> fsys, threw |-> FALSE]
    IN  [fsys |-> u.fsys, failed |-> u.threw, raised |-> SwallowCleanup(u.threw)]

\* cleanup in the catch block of downloadDoc: one try around both deletions
DownloadCleanup(fsys, path, unlinkOk, rmdirOk) ==
    LET u == IF path \in fsys.files THEN UnlinkSync(fsys, path, unlinkOk)
             ELSE [fsys |-> fsys, threw |-> FALSE]
        d == IF path[1] \in u.fsys.dirs THEN RmdirSync(u.fsys, path[1], rmdirOk)
             ELSE [fsys |-> u.fsys, threw |-> FALSE]
    IN  IF u.threw
        THEN [fsys |-> u.fsys, failed |-> TRUE, raised |-> SwallowCleanup(TRUE)]
        ELSE [fsys |-> d.fsys, failed |-> d.threw, raised |-> SwallowCleanup(d.threw)]

\* the finally block of processGoogleDoc: each deletion in a try of its own;
\* tempFilePath = [set, path], tempDir = path.dirname(tempFilePath)
ProcessCleanup(fsys, tempFilePath, unlinkOk, rmdirOk) ==
    LET path == tempFilePath.path
        u == IF tempFilePath.set /\ path \in fsys.files
             THEN UnlinkSync(fsys, path, unlinkOk)
             ELSE [fsys |-> fsys, threw |-> FALSE]
        d == IF tempFilePath.set /\ path[1] \in u.fsys.dirs
             THEN RmdirSync(u.fsys, path[1], rmdirOk)
             ELSE [fsys |-> u.fsys, threw |-> FALSE]
    IN  [fsys |-> d.fsys, failed |-> u.threw \/ d.threw,
         raised |-> SwallowCleanup(u.threw) \/ SwallowCleanup(d.threw)]

\* ------------------------------------------------------------------------
\* server: POST /parse-doc
\* ------------------------------------------------------------------------

MsgUrlRequired ==
    <<"Invalid", "request", ":", "\"url\"", "is", "required", "and", "must", "be", "a", "string", ".">>
MsgKeywordsArray ==
    <<"Invalid", "request", ":", "\"keywords\"", "must", "be", "an", "array", "of",
      "strings", "if", "provided", ".">>

\* the status the catch block of the handler answers with for err.message
StatusFor(message) ==
    IF \/ Includes(message, <<"Unauthorized", "access">>)
       \/ Includes(message, <<"not", "publicly", "accessible">>)
    THEN 403
    ELSE IF Includes(message, <<"Document", "not", "found">>) THEN 404
    ELSE IF Includes(message, <<"Invalid", "Google", "Docs", "URL">>) THEN 400
    ELSE 500

\* ------------------------------------------------------------------------
\* googleDocParser: convertToHtml
\* ------------------------------------------------------------------------

MsgNoFile == <<"DOCX", "file", "does", "not", "exist", "at", "the", "given", "path", ".">>
MsgFailedConvert(message) ==
    <<"Failed", "to", "convert", "DOCX", "to", "HTML", ":">> \o message
MsgCorrupt == <<"Can't", "find", "end", "of", "central", "directory">>

\* ------------------------------------------------------------------------
\* state
\* ------------------------------------------------------------------------

VARIABLES
    rq,             \* per request: position in the handler, its locals, its answer
    fsys,           \* the temporary directories and files that exist
    creator,        \* per directory name: the request whose mkdtempSync made it last
    html,           \* extractStructuredData: the html argument, parsed
    keywords,       \* extractStructuredData: the keywords argument
    phase,          \* extractStructuredData: "enter", "pass1", "pass2", "done", "threw"
    pos,            \* number of elements the running pass has visited
    structuredData, \* extractStructuredData: the mapping being filled
    pendingLabel,   \* extractStructuredData: the pending label of the second pass
    labelPos        \* position of the element that made pendingLabel pending, else 0

svars == <<rq, fsys, creator>>
xvars == <<html, keywords, phase, pos, structuredData, pendingLabel, labelPos>>
vars == <<rq, fsys, creator, html, keywords, phase, pos, structuredData, pendingLabel,
          labelPos>>

\* bounds
NumReq == 2
MaxDocLen == 3

Req == 1..NumReq
DirNames == 1..NumReq

NoPath == [set |-> FALSE, path |-> <<0, <<>>>>]
NoResult == [kind |-> "none", msg |-> <<>>, data |-> EmptyData, rawHtml |-> <<>>]

\* trace lists the steps of processGoogleDoc the request has begun and ended;
\* outcome is what the call had thrown or was returning when cleanup began
IdleReq ==
    [pc |-> "idle", via |-> "none", url |-> JsUndefined, keywords |-> JsUndefined,
     invoked |-> FALSE, args |-> [url |-> JsUndefined, keywords |-> JsUndefined],
     docId |-> <<>>, dlDir |-> 0, tempFilePath |-> NoPath, nExport |-> 0,
     export |-> [status |-> -1, ctype |-> "none"],
     result |-> NoResult, status |-> 0, error |-> <<>>,
     delFailed |-> FALSE, cleanupRaised |-> FALSE, foreign |-> FALSE,
     trace |-> <<>>, outcome |-> NoResult]

\* res.status(status).json({ error: message }) before processGoogleDoc is called
Reject(rec, status, message) ==
    [rec EXCEPT !.pc = "done", !.status = status, !.error = message]

\* processGoogleDoc settles with result; the handler's try / catch answers
Answer(rec, result) ==
    [rec EXCEPT !.pc = "done", !.result = result,
                !.status = IF rec.via # "http" THEN 0
                           ELSE IF result.kind = "ok" THEN 200
                           ELSE StatusFor(result.msg),
                !.error = IF rec.via = "http" /\ result.kind = "error"
                          THEN result.msg ELSE <<>>]

Failure(message) == [NoResult EXCEPT !.kind = "error", !.msg = message]

\* the result once the cleanup blocks have run: an error escaping a cleanup
\* block would replace it
Settle(rec, result, cleanups) ==
    LET failed == \E c \in cleanups : c.failed
        raised == \E c \in cleanups : c.raised
    IN  Answer([rec EXCEPT !.delFailed = failed, !.cleanupRaised = raised,
                           !.outcome = result],
               IF raised THEN Failure(MsgDeleteFailed) ELSE result)

\* a fixed directory name, made if missing
FixedTempName(f) == {1}

\* the names fs.mkdtempSync may return: any name that does not exist yet
MkdtempNames(f) == DirNames \ f.dirs

\* ProcessStart making the temporary directory before it extracts the ID
ProcessStartDirFirst(r, rec0, url, kws, mk) ==
    LET rec == [rec0 EXCEPT !.invoked = TRUE, !.args = [url |-> url, keywords |-> kws],
                            !.trace = <<"fetch">>]
        id == extractDocId(url)
    IN  IF mk = 0
        THEN /\ rq' = [rq EXCEPT ![r] = Settle(rec, Failure(MsgNoSpace), {})]
             /\ UNCHANGED <<fsys, creator>>
        ELSE /\ rq' = [rq EXCEPT ![r] =
                        IF id.threw THEN Settle(rec, Failure(id.msg), {})
                        ELSE [rec EXCEPT !.pc = "fetching", !.docId = id.id,
                                         !.dlDir = mk, !.nExport = @ + 1]]
             /\ fsys' = [fsys EXCEPT !.dirs = @ \cup {mk}]
             /\ creator' = [creator EXCEPT ![mk] = r]

\* processGoogleDoc(url, kws) up to the await of axios.get in downloadDoc;
\* mk is the directory mkdtempSync makes, 0 when it throws
ProcessStart(r, rec0, url, kws, mk) ==
    LET rec == [rec0 EXCEPT !.invoked = TRUE, !.args = [url |-> url, keywords |-> kws],
                            !.trace = <<"fetch">>]
        id == extractDocId(url)
    IN  IF id.threw
        THEN /\ rq' = [rq EXCEPT ![r] = Settle(rec, Failure(id.msg), {})]
             /\ UNCHANGED <<fsys, creator>>
        ELSE IF mk = 0
        THEN /\ rq' = [rq EXCEPT ![r] = Settle(rec, Failure(MsgNoSpace), {})]
             /\ UNCHANGED <<fsys, creator>>
        ELSE /\ rq' = [rq EXCEPT ![r] = [rec EXCEPT !.pc = "fetching", !.docId = id.id,
                                                    !.dlDir = mk, !.nExport = @ + 1]]
             /\ fsys' = [fsys EXCEPT !.dirs = @ \cup {mk}]
             /\ creator' = [creator EXCEPT ![mk] = r]

\* app.post('/parse-doc') up to the first await
Receive(r, env) ==
    /\ rq[r].pc = "idle"
    /\ \E body \in env.bodies, mk \in {0} \cup MkdtempNames(fsys) :
        LET rec == [rq[r] EXCEPT !.via = "http", !.url = body.url,
                                 !.keywords = body.keywords]
        IN  IF ~Truthy(body.url) \/ ~IsString(body.url)
            THEN /\ rq' = [rq EXCEPT ![r] = Reject(rec, 400, MsgUrlRequired)]
                 /\ UNCHANGED <<fsys, creator>>
            ELSE IF Truthy(body.keywords) /\ ~IsArray(body.keywords)
            THEN /\ rq' = [rq EXCEPT ![r] = Reject(rec, 400, MsgKeywordsArray)]
                 /\ UNCHANGED <<fsys, creator>>
            ELSE ProcessStart(r, rec, body.url, JsOr(body.keywords, JsArray(<<>>)), mk)
    /\ UNCHANGED xvars

\* processGoogleDoc called as a library function
DirectCall(r, env) ==
    /\ rq[r].pc = "idle"
    /\ \E call \in env.calls, mk \in {0} \cup MkdtempNames(fsys) :
        ProcessStart(r, [rq[r] EXCEPT !.via = "direct", !.url = call.url,
                                      !.keywords = call.keywords],
                     call.url, call.keywords, mk)
    /\ UNCHANGED xvars

\* ExportResponds issuing the export request again when the download failed
ExportRespondsRetry(r, env) ==
    /\ rq[r].pc = "fetching"
    /\ \E response \in env.responses, write \in env.writes :
        LET rec == [rq[r] EXCEPT !.export = response]
            path == <<rec.dlDir, rec.docId>>
            t == DownloadTry(response, write)
        IN  IF ~t.threw
            THEN /\ rq' = [rq EXCEPT ![r] = [rec EXCEPT !.pc = "downloaded",
                                !.tempFilePath = [set |-> TRUE, path |-> path],
                                !.trace = Append(@, "fetched")]]
                 /\ fsys' = [fsys EXCEPT !.files = @ \cup {path}]
            ELSE /\ rq' = [rq EXCEPT ![r] = [rec EXCEPT !.nExport = @ + 1,
                                                        !.trace = Append(@, "fetch")]]
                 /\ UNCHANGED fsys
    /\ UNCHANGED <<creator, xvars>>

\* the export request settles: the rest of downloadDoc, and on a failure the
\* finally block of processGoogleDoc and the handler's answer
ExportResponds(r, env) ==
    /\ rq[r].pc = "fetching"
    /\ \E response \in env.responses, write \in env.writes, unlinkOk \in env.deletes,
          rmdirOk \in env.deletes :
        LET rec == [rq[r] EXCEPT !.export = response,
                                 !.foreign = @ \/ creator[rq[r].dlDir] # r]
            path == <<rec.dlDir, rec.docId>>
            t == DownloadTry(response, write)
            written == IF t.file THEN [fsys EXCEPT !.files = @ \cup {path}] ELSE fsys
            c == DownloadCleanup(written, path, unlinkOk, rmdirOk)
            f == ProcessCleanup(c.fsys, rec.tempFilePath, unlinkOk, rmdirOk)
        IN  IF ~t.threw
            THEN /\ rq' = [rq EXCEPT ![r] = [rec EXCEPT !.pc = "downloaded",
                                !.tempFilePath = [set |-> TRUE, path |-> path],
                                !.trace = Append(@, "fetched")]]
                 /\ fsys' = written
            ELSE /\ rq' = [rq EXCEPT ![r] =
                        Settle(rec, Failure(DownloadRethrow(t.err)), {c, f})]
                 /\ fsys' = f.fsys
    /\ UNCHANGED <<creator, xvars>>

\* processGoogleDoc resumes after downloadDoc: convertToHtml up to the await
\* of mammoth.convertToHtml
BeginConvert(r, env) ==
    /\ rq[r].pc = "downloaded"
    /\ \E unlinkOk \in env.deletes, rmdirOk \in env.deletes :
        LET rec == [rq[r] EXCEPT !.foreign = @ \/ creator[rq[r].tempFilePath.path[1]] # r,
                                 !.trace = Append(@, "convert")]
            f == ProcessCleanup(fsys, rec.tempFilePath, unlinkOk, rmdirOk)
        IN  IF rec.tempFilePath.path \in fsys.files
            THEN /\ rq' = [rq EXCEPT ![r] = [rec EXCEPT !.pc = "converting"]]
                 /\ UNCHANGED fsys
            ELSE /\ rq' = [rq EXCEPT ![r] =
                        Settle(rec, Failure(MsgNoFile), {f})]
                 /\ fsys' = f.fsys
    /\ UNCHANGED <<creator, xvars>>

\* mammoth settles: the rest of processGoogleDoc (extraction, finally) and the
\* handler's answer; converted is [ok, dom]
ConvertDone(r, env) ==
    /\ rq[r].pc = "converting"
    /\ \E converted \in env.conversions, unlinkOk \in env.deletes,
          rmdirOk \in env.deletes :
        LET readable == rq[r].tempFilePath.path \in fsys.files
            rawHtml == [isString |-> TRUE, dom |-> converted.dom]
            x == extractStructuredData(rawHtml, JsOr(rq[r].args.keywords, JsArray(<<>>)))
            rec == [rq[r] EXCEPT !.foreign = @ \/ creator[rq[r].tempFilePath.path[1]] # r,
                                 !.trace = IF ~converted.ok \/ ~readable THEN @
                                           ELSE IF x.threw THEN @ \o <<"converted", "extract">>
                                           ELSE @ \o <<"converted", "extract", "extracted">>]
            f == ProcessCleanup(fsys, rec.tempFilePath, unlinkOk, rmdirOk)
            result == IF ~converted.ok \/ ~readable THEN Failure(MsgFailedConvert(MsgCorrupt))
                      ELSE IF x.threw THEN Failure(x.msg)
                      ELSE [kind |-> "ok", msg |-> <<>>, data |-> x.data,
                            rawHtml |-> converted.dom]
        IN  /\ rq' = [rq EXCEPT ![r] = Settle(rec, result, {f})]
            /\ fsys' = f.fsys
    /\ UNCHANGED <<creator, xvars>>

\* ------------------------------------------------------------------------
\* extractStructuredData, one callback at a time
\* ------------------------------------------------------------------------

\* the argument checks and the set-up before the first pass
Enter ==
    /\ phase = "enter"
    /\ phase' = IF extractStructuredData(html, keywords).threw THEN "threw" ELSE "pass1"
    /\ structuredData' = EmptyData
    /\ pos' = 0
    /\ UNCHANGED <<html, keywords, pendingLabel, labelPos, svars>>

\* one callback of the first $(selector).each
Pass1Step ==
    /\ phase = "pass1"
    /\ pos < Len(html.dom)
    /\ structuredData' =
          Pass1Elem(structuredData, html.dom[pos + 1], normalizedKeywords(keywords))
    /\ pos' = pos + 1
    /\ UNCHANGED <<html, keywords, phase, pendingLabel, labelPos, svars>>

\* let pendingLabel = null, between the passes
StartPass2 ==
    /\ phase = "pass1"
    /\ pos = Len(html.dom)
    /\ phase' = "pass2"
    /\ pos' = 0
    /\ pendingLabel' = NoLabel
    /\ labelPos' = 0
    /\ UNCHANGED <<html, keywords, structuredData, svars>>

\* one callback of the second $(selector).each
Pass2Step ==
    /\ phase = "pass2"
    /\ pos < Len(html.dom)
    /\ LET st == Pass2Elem([data |-> structuredData, pending |-> pendingLabel],
                           html.dom[pos + 1], normalizedKeywords(keywords))
       IN  /\ structuredData' = st.data
           /\ pendingLabel' = st.pending
           /\ labelPos' = IF ~st.pending.set THEN 0
                          ELSE IF pendingLabel.set THEN labelPos
                          ELSE pos + 1
    /\ pos' = pos + 1
    /\ UNCHANGED <<html, keywords, phase, svars>>

\* return structuredData
Return ==
    /\ phase = "pass2"
    /\ pos = Len(html.dom)
    /\ phase' = "done"
    /\ UNCHANGED <<html, keywords, pos, structuredData, pendingLabel, labelPos, svars>>

\* ------------------------------------------------------------------------
\* inputs
\* ------------------------------------------------------------------------

Text(kind, text) == [kind |-> kind, text |-> text]
Elem(tag, parts) == [tag |-> tag, parts |-> parts]

\* keywords: "A b", "a  b" (two spaces inside), "a b", "x"
KwAb == Prim(JsString(<<"A", " ", "b">>))
KwWide == Prim(JsString(<<"a", " ", " ", "b">>))
KwLower == Prim(JsString(<<"a", " ", "b">>))
KwX == Prim(JsString(<<"x">>))

Elements ==
    { Elem("p", <<Text("text", <<"A", " ", "b">>)>>),
      Elem("h2", <<Text("text", <<"a", " ", "\t", "b">>)>>),
      Elem("p", <<Text("text", <<"A", " ", "b", ":", " ", "x">>)>>),
      Elem("h3", <<Text("text", <<"x", " ", "A", " ", "b", " ", ":", " ">>)>>),
      Elem("p", <<Text("text", <<" ", "x", " ">>)>>),
      Elem("ul", <<Text("li", <<"x">>), Text("li", <<" ">>), Text("li", <<" ", "a", " ", "b">>)>>),
      Elem("ul", <<Text("text", <<"x">>), Text("li", <<" ">>)>>),
      Elem("table", <<Text("th", <<" ", "x">>), Text("text", <<"\n">>), Text("td", <<"A">>)>>),
      Elem("h1", <<Text("text", <<" ", "\n">>)>>),
      Elem("h1", <<Text("text", <<"x", ":", "A", " ", "b", ":", "b">>)>>) }

RECURSIVE SeqsUpTo(_, _)
SeqsUpTo(S, n) ==
    IF n = 0 THEN {<<>>}
    ELSE LET shorter == SeqsUpTo(S, n - 1)
         IN  shorter \cup {Append(d, e) : d \in shorter, e \in S}

Documents == SeqsUpTo(Elements, MaxDocLen)

KeywordArgs ==
    { JsArray(<<KwAb>>), JsArray(<<KwWide>>),
      JsArray(<<KwAb, KwX>>), JsArray(<<KwX, KwLower>>), JsArray(<<KwLower, KwAb>>),
      JsArray(<<Prim(JsString(<<" ">>)), Prim(JsNumber("5")), KwAb>>),
      JsString(<<"x">>) }

HtmlArgs == {[isString |-> TRUE, dom |-> d] : d \in Documents}
                \cup {[isString |-> FALSE, dom |-> <<>>]}

UrlDocA == JsString(<<"http", "s", HostPath, "a", "/", "edit">>)
UrlDocB == JsString(<<"x", "http", HostPath, "b", " ">>)

UrlValues ==
    { JsUndefined, JsNumber("123"), JsString(<<>>), JsString(<<" ", " ">>),
      JsString(<<"http", "s", HostPath, "/", "a">>), UrlDocA, UrlDocB }

KeywordValues ==
    { JsUndefined, JsNull, JsNumber("0"), JsBool("false"), JsString(<<>>),
      JsString(<<"x">>), JsNumber("5"), JsObject, JsArray(<<>>), JsArray(<<KwAb>>) }

Bodies == {[url |-> u, keywords |-> k] : u \in UrlValues, k \in KeywordValues}

Calls ==
    { [url |-> UrlDocA, keywords |-> JsString(<<"x">>)],
      [url |-> UrlDocA, keywords |-> JsUndefined],
      [url |-> JsString(<<" ">>), keywords |-> JsArray(<<KwAb>>)] }

Responses ==
    {[status |-> st, ctype |-> ct] :
        st \in {0, 200, 304, 401, 403, 404, 500},
        ct \in {"docx", "docx; charset", "text/html", "none"}}

SampleDocs ==
    { <<>>,
      <<Elem("p", <<Text("text", <<"A", " ", "b">>)>>),
        Elem("p", <<Text("text", <<"x">>)>>)>> }

Conversions == {[ok |-> TRUE, dom |-> d] : d \in SampleDocs} \cup {[ok |-> FALSE, dom |-> <<>>]}

\* what the surroundings of one request may do: the inputs of a call, the
\* answers of the export request, and whether writes and deletions succeed
FullEnv ==
    [bodies |-> Bodies, calls |-> Calls, responses |-> Responses,
     writes |-> WriteOutcomes, deletes |-> BOOLEAN, conversions |-> Conversions]

\* the concurrent specification draws from fewer inputs: two document URLs,
\* a DOCX answer or a 404, a write that succeeds or leaves a partial file
ConcEnv ==
    [bodies |-> {[url |-> u, keywords |-> JsArray(<<KwAb>>)] : u \in {UrlDocA, UrlDocB}},
     calls |-> {},
     responses |-> {[status |-> 200, ctype |-> "docx"], [status |-> 404, ctype |-> "none"]},
     writes |-> {"ok", "partial"}, deletes |-> {TRUE},
     conversions |-> {[ok |-> TRUE, dom |-> <<>>], [ok |-> FALSE, dom |-> <<>>]}]

\* ------------------------------------------------------------------------
\* specifications
\* ------------------------------------------------------------------------

ServerInit(reqs) ==
    /\ rq = [r \in reqs |-> IdleReq]
    /\ fsys = [dirs |-> {}, files |-> {}]
    /\ creator = [d \in DirNames |-> 0]

ExtractIdle ==
    /\ pos = 0
    /\ structuredData = EmptyData
    /\ pendingLabel = NoLabel
    /\ labelPos = 0

\* one request, every kind of input
Init ==
    /\ ServerInit({1})
    /\ html = [isString |-> TRUE, dom |-> <<>>]
    /\ keywords = JsArray(<<>>)
    /\ phase = "idle"
    /\ ExtractIdle

Next ==
    \/ \E r \in DOMAIN rq : Receive(r, FullEnv)
    \/ \E r \in DOMAIN rq : DirectCall(r, FullEnv)
    \/ \E r \in DOMAIN rq : ExportResponds(r, FullEnv)
    \/ \E r \in DOMAIN rq : BeginConvert(r, FullEnv)
    \/ \E r \in DOMAIN rq : ConvertDone(r, FullEnv)

Spec == Init /\ [][Next]_vars

\* NumReq requests in flight at once
InitConc ==
    /\ ServerInit(Req)
    /\ html = [isString |-> TRUE, dom |-> <<>>]
    /\ keywords = JsArray(<<>>)
    /\ phase = "idle"
    /\ ExtractIdle

NextConc ==
    \/ \E r \in DOMAIN rq : Receive(r, ConcEnv)
    \/ \E r \in DOMAIN rq : ExportResponds(r, ConcEnv)
    \/ \E r \in DOMAIN rq : BeginConvert(r, ConcEnv)
    \/ \E r \in DOMAIN rq : ConvertDone(r, ConcEnv)

SpecConc == InitConc /\ [][NextConc]_vars

\* one call of extractStructuredData on any document and keyword argument
InitExtract ==
    /\ ServerInit({})
    /\ html \in HtmlArgs
    /\ keywords \in KeywordArgs
    /\ phase = "enter"
    /\ ExtractIdle

NextExtract == Enter \/ Pass1Step \/ StartPass2 \/ Pass2Step \/ Return

SpecExtract == InitExtract /\ [][NextExtract]_vars

\* ------------------------------------------------------------------------
\* extractDocId called on its own
\* ------------------------------------------------------------------------

\* bound: the number of tokens of a url argument
MaxUrlLen == 4

UrlTokens == {"http", "s", HostPath, "/", "a", " "}

\* the arguments of a call: every token string up to MaxUrlLen, and non-strings
UrlArgs ==
    {JsString(s) : s \in SeqsUpTo(UrlTokens, MaxUrlLen)} \cup {JsUndefined, JsNumber("123")}

\* extractDocId(url) returns or throws
ExtractDocIdCall(r) ==
    /\ rq[r].pc = "idle"
    /\ LET id == extractDocId(rq[r].url)
       IN  rq' = [rq EXCEPT ![r] =
                    [@ EXCEPT !.pc = "done", !.docId = id.id,
                              !.result = IF id.threw THEN Failure(id.msg) ELSE NoResult]]
    /\ UNCHANGED <<fsys, creator, xvars>>

InitDocId ==
    /\ rq \in {[r \in {1} |-> [IdleReq EXCEPT !.url = u]] : u \in UrlArgs}
    /\ fsys = [dirs |-> {}, files |-> {}]
    /\ creator = [d \in DirNames |-> 0]
    /\ html = [isString |-> TRUE, dom |-> <<>>]
    /\ keywords = JsArray(<<>>)
    /\ phase = "idle"
    /\ ExtractIdle

NextDocId == \E r \in DOMAIN rq : ExtractDocIdCall(r)

SpecDocId == InitDocId /\ [][NextDocId]_vars

\* ------------------------------------------------------------------------
\* claims about the request pipeline
\* ------------------------------------------------------------------------

Done(r) == rq[r].pc = "done"
ViaHttp(r) == rq[r].via = "http"

\* C1: whenever the export request answers 401 or 403, downloadDoc fails with
\* the error whose message contains "Unauthorized access", and POST /parse-doc
\* answers 403 (never 500).
C1_UnauthorizedAnswers403 ==
    \A r \in DOMAIN rq :
        (Done(r) /\ rq[r].export.status \in {401, 403})
            => /\ rq[r].result.kind = "error"
               /\ Includes(rq[r].result.msg, <<"Unauthorized", "access">>)
               /\ ViaHttp(r) => rq[r].status = 403

\* C2: whenever the export request succeeds at transport level but the content
\* type is not the DOCX MIME type, downloadDoc fails with a "not publicly
\* accessible" error and POST /parse-doc answers 403.
C2_NonDocxAnswers403 ==
    \A r \in DOMAIN rq :
        (/\ Done(r)
         /\ rq[r].export.status \in {200, 304}
         /\ rq[r].export.ctype \in {"text/html", "none"})
            => /\ rq[r].result.kind = "error"
               /\ Includes(rq[r].result.msg, <<"not", "publicly", "accessible">>)
               /\ ViaHttp(r) => rq[r].status = 403

\* the url of the request body is missing, not a string, empty, only
\* whitespace, or holds no Google Docs document URL
BadUrl(url) ==
    \/ url.t # "string"
    \/ \A i \in 1..Len(url.s) : url.s[i] \in Whitespace
    \/ ~\E i \in 1..Len(url.s), j \in 1..Len(url.s) :
            /\ url.s[i] = "http"
            /\ j \in {i + 1, i + 2}
            /\ url.s[j] = HostPath
            /\ j = i + 2 => url.s[i + 1] = "s"
            /\ j < Len(url.s)
            /\ url.s[j + 1] # "/"

\* C3: every POST /parse-doc whose url makes document-ID extraction fail is
\* answered with status 400, never 500.
C3_BadUrlAnswers400 ==
    \A r \in DOMAIN rq :
        (Done(r) /\ ViaHttp(r) /\ BadUrl(rq[r].url)) => rq[r].status = 400

\* C4: every POST /parse-doc with a valid url and a keywords field that is not
\* an array (0, false and '' included) is answered with status 400, and
\* processGoogleDoc is never invoked for it.
C4_NonArrayKeywordsRejected ==
    \A r \in DOMAIN rq :
        (/\ ViaHttp(r)
         /\ ~BadUrl(rq[r].url)
         /\ rq[r].keywords.t \notin {"undefined", "null", "array"})
            => /\ ~rq[r].invoked
               /\ Done(r) => rq[r].status = 400

\* C5: once processGoogleDoc has finished, whatever its outcome, the temporary
\* file and directory of the call no longer exist, provided no delete operation
\* failed; and no error escapes from a cleanup block.
C5_TempFilesRemoved ==
    \A r \in DOMAIN rq :
        (Done(r) /\ rq[r].invoked)
            => /\ ~rq[r].cleanupRaised
               /\ (rq[r].dlDir # 0 /\ ~rq[r].delFailed)
                    => /\ rq[r].dlDir \notin fsys.dirs
                       /\ <<rq[r].dlDir, rq[r].docId>> \notin fsys.files

\* C5 witness: a call that downloaded its file and failed in extraction, with
\* every deletion succeeding.
C5_Witness ==
    \E r \in DOMAIN rq :
        /\ Done(r)
        /\ rq[r].tempFilePath.set
        /\ rq[r].result.msg = MsgKeywordsNotArray
        /\ ~rq[r].delFailed

InFlight(r) == rq[r].pc \in {"fetching", "downloaded", "converting"}

\* C6: under every interleaving of concurrent requests, same document ID or
\* not, a request touches only the temporary directory and file it created:
\* no two requests in flight hold the same directory, a request in flight still
\* has its directory (and its file once downloaded), and no request has read,
\* written or deleted a path in a directory another request made.
C6_NoSharedTempFiles ==
    /\ \A r \in DOMAIN rq : ~rq[r].foreign
    /\ \A r1 \in DOMAIN rq, r2 \in DOMAIN rq :
            (r1 # r2 /\ InFlight(r1) /\ InFlight(r2)) => rq[r1].dlDir # rq[r2].dlDir
    /\ \A r \in DOMAIN rq :
            InFlight(r) => /\ rq[r].dlDir \in fsys.dirs
                           /\ creator[rq[r].dlDir] = r
                           /\ rq[r].pc \in {"downloaded", "converting"}
                                => rq[r].tempFilePath.path \in fsys.files

\* C6 witness: two requests for the same document ID, both downloaded and
\* converting at the same time.
C6_Witness ==
    \E r1 \in DOMAIN rq, r2 \in DOMAIN rq :
        /\ r1 # r2
        /\ rq[r1].pc = "converting"
        /\ rq[r2].pc = "converting"
        /\ rq[r1].docId = rq[r2].docId

\* ------------------------------------------------------------------------
\* claims about extractStructuredData
\* ------------------------------------------------------------------------

\* the second pass is about to visit an element
AtPass2Elem == phase = "pass2" /\ pos < Len(html.dom)
Visited == html.dom[pos + 1]

\* the keywords of the argument that are strings with something in them
Supplied ==
    {keywords.a[i].s : i \in {j \in 1..Len(keywords.a) :
        keywords.a[j].t = "string" /\ \E c \in 1..Len(keywords.a[j].s) :
            keywords.a[j].s[c] \notin Whitespace}}

HasColon(text) == \E i \in 1..Len(text) : text[i] = ":"
NonEmpty(text) == \E i \in 1..Len(text) : text[i] \notin Whitespace

\* C7: in pass 2, while no label is pending, a colon-free element becomes the
\* pending label for a keyword whenever its text and the keyword are equal
\* after lowercasing, trimming and collapsing whitespace runs, also for
\* keywords with several whitespace characters in a row inside them.
C7_LabelIgnoresWhitespace ==
    [][(AtPass2Elem /\ ~pendingLabel.set)
        => \A k \in Supplied :
              (/\ ~HasColon(ElemText(Visited))
               /\ normalizeText(ElemText(Visited)) = normalizeText(k))
                  => /\ pendingLabel'.set
                     /\ normalizeText(pendingLabel'.original) = normalizeText(k)]_vars

\* the trimmed non-empty texts of the parts of the given kinds, in document order
TextsOf(elem, kinds) ==
    LET at == {i \in 1..Len(elem.parts) :
                  elem.parts[i].kind \in kinds /\ NonEmpty(elem.parts[i].text)}
        nth(n) == CHOOSE i \in at : Cardinality({j \in at : j <= i}) = n
    IN  [n \in 1..Cardinality(at) |-> Trim(elem.parts[nth(n)].text)]

\* the value the element kinds are said to give
KindValue(elem) ==
    IF elem.tag = "ul" THEN Join(TextsOf(elem, {"li"}), <<" ", "|", " ">>)
    ELSE IF elem.tag = "table" THEN Join(TextsOf(elem, {"th", "td"}), <<" ", "|", " ">>)
    ELSE Trim(ElemText(elem))

\* element m has non-empty text other than the label's
OtherText(m, label) ==
    /\ NonEmpty(ElemText(html.dom[m]))
    /\ normalizeText(ElemText(html.dom[m])) # label.normalized

\* the first element after position from with non-empty text other than the label's
NextOther(from, label) ==
    SetMin({m \in (from + 1)..Len(html.dom) : OtherText(m, label)})

\* the same, among the elements whose kind gives a non-empty value
NextYielding(from, label) ==
    SetMin({m \in (from + 1)..Len(html.dom) :
                OtherText(m, label) /\ KindValue(html.dom[m]) # <<>>})

\* the step records a value for the pending label
Records == AtPass2Elem /\ pendingLabel.set /\ ~pendingLabel'.set

\* C8 as stated: the value recorded for a pending label is the value by kind
\* (list items, cells, or text) of the next non-empty, non-duplicate element.
C8_ValueOfNextElement ==
    [][Records
        => /\ pendingLabel.original \in DOMAIN structuredData'
           /\ structuredData'[pendingLabel.original]
                 = KindValue(html.dom[NextOther(labelPos, pendingLabel)])]_vars

\* C8 amended: a non-empty, non-duplicate element met while a label is pending
\* gives the value by kind (list items joined with " | ", th/td cells joined
\* with " | ", else the trimmed text); when that value is non-empty it is
\* recorded under the label and the label is cleared, and when it is empty
\* nothing is recorded and the label stays pending for a later element.
C8_ValueByKind ==
    [][(AtPass2Elem /\ pendingLabel.set /\ OtherText(pos + 1, pendingLabel))
        => IF KindValue(Visited) # <<>>
           THEN /\ pendingLabel.original \in DOMAIN structuredData'
                /\ structuredData'[pendingLabel.original] = KindValue(Visited)
                /\ ~pendingLabel'.set
           ELSE UNCHANGED <<structuredData, pendingLabel>>]_vars

\* C8 witness: the scan is done and a label's value came from a table with a
\* th and a td cell.
C8_Witness ==
    /\ phase = "done"
    /\ \E k \in DOMAIN structuredData : structuredData[k] = <<"x", " ", "|", " ", "A">>

\* C9 as stated: while a label is pending, an element repeating the label is
\* skipped (nothing recorded, label kept), and the value recorded for the label
\* comes from the next element with a different non-empty text.
C9_ValueFromNextOther ==
    [][/\ (AtPass2Elem /\ pendingLabel.set
             /\ normalizeText(ElemText(Visited)) = pendingLabel.normalized)
          => UNCHANGED <<structuredData, pendingLabel>>
       /\ Records => pos + 1 = NextOther(labelPos, pendingLabel)]_vars

\* C9 amended: while a label is pending, an element repeating the label is
\* skipped (nothing recorded, label kept), and the value recorded for the label
\* comes from the next element with a different non-empty text whose value by
\* kind is non-empty.
C9_ValueFromNextYielding ==
    [][/\ (AtPass2Elem /\ pendingLabel.set
             /\ normalizeText(ElemText(Visited)) = pendingLabel.normalized)
          => UNCHANGED <<structuredData, pendingLabel>>
       /\ Records => pos + 1 = NextYielding(labelPos, pendingLabel)]_vars

\* C9 witness: a label, then an element repeating it, then the value, which
\* has just been recorded.
C9_Witness ==
    /\ phase = "pass2"
    /\ pos = 3
    /\ ~pendingLabel.set
    /\ \E k \in DOMAIN structuredData :
          /\ normalizeText(ElemText(html.dom[1])) = normalizeText(k)
          /\ normalizeText(ElemText(html.dom[2])) = normalizeText(k)
          /\ ~HasColon(ElemText(html.dom[1]))
          /\ structuredData[k] = KindValue(html.dom[3])

\* some element holds the keyword, then a colon, then something
InlinePattern(k) ==
    LET word == Trim(ToLowerCase(k))
    IN  \E m \in 1..Len(html.dom) :
            LET text == ElemText(html.dom[m])
            IN  \E p \in 1..(Len(text) - Len(word) + 1) :
                    /\ \A i \in 1..Len(word) : LowerChar(text[p + i - 1]) = word[i]
                    /\ \E q \in (p + Len(word))..Len(text) :
                          /\ text[q] = ":"
                          /\ \E c \in (q + 1)..Len(text) : text[c] \notin Whitespace

\* some colon-free element equals the keyword and a non-empty element follows it
LabelPattern(k) ==
    \E i \in 1..Len(html.dom), j \in 1..Len(html.dom) :
        /\ i < j
        /\ ~HasColon(ElemText(html.dom[i]))
        /\ normalizeText(ElemText(html.dom[i])) = normalizeText(k)
        /\ NonEmpty(ElemText(html.dom[j]))

\* C10: a keyword that matches in neither pattern is not a key of the result,
\* and every key of the result is one of the supplied keywords.
C10_UnmatchedAbsent ==
    \A k \in DOMAIN structuredData :
        /\ k \in Supplied
        /\ InlinePattern(k) \/ LabelPattern(k)

\* C10 witness: the call returns a value for one keyword and none for another
\* keyword that the document mentions without a colon and without a value
\* element after it.
C10_Witness ==
    /\ phase = "done"
    /\ DOMAIN structuredData # {}
    /\ \E k \in Supplied :
          /\ k \notin DOMAIN structuredData
          /\ \E m \in 1..Len(html.dom) :
                Includes(ToLowerCase(ElemText(html.dom[m])), Trim(ToLowerCase(k)))

\* C11: every value in the mapping, after every step of both passes and in the
\* returned mapping, is a non-empty string whose first and last characters are
\* not whitespace: a value is written only when non-empty after trimming.
C11_ValuesTrimmedNonEmpty ==
    \A k \in DOMAIN structuredData :
        /\ structuredData[k] # <<>>
        /\ structuredData[k][1] \notin Whitespace
        /\ structuredData[k][Len(structuredData[k])] \notin Whitespace

\* C11 witness: the call has returned a value taken from an element whose text
\* has whitespace around it, for a document that also holds a list whose items
\* are all blank.
C11_Witness ==
    /\ phase = "done"
    /\ \E m \in 1..Len(html.dom) :
          /\ ElemText(html.dom[m])[1] \in Whitespace
          /\ \E k \in DOMAIN structuredData : structuredData[k] = Trim(ElemText(html.dom[m]))
    /\ \E m \in 1..Len(html.dom) :
          /\ html.dom[m].tag = "ul"
          /\ KindValue(html.dom[m]) = <<>>

\* ------------------------------------------------------------------------
\* further claims about the request pipeline
\* ------------------------------------------------------------------------

\* C12 as stated: when the export request fails with status 404, downloadDoc
\* fails with the "Document not found" error, its temporary directory is gone
\* when the error propagates, and POST /parse-doc answers 404.
C12_NotFoundRemovesDir ==
    \A r \in DOMAIN rq :
        (Done(r) /\ rq[r].export.status = 404)
            => /\ rq[r].result.kind = "error"
               /\ Includes(rq[r].result.msg, <<"Document", "not", "found">>)
               /\ rq[r].dlDir \notin fsys.dirs
               /\ ViaHttp(r) => rq[r].status = 404

\* C12 amended: when the export request fails with status 404, downloadDoc
\* fails with the "Document not found" error and POST /parse-doc answers 404;
\* the temporary directory is gone when the error propagates unless its
\* removal failed, in which case it is left behind and the answer is the same.
C12_NotFoundBestEffort ==
    \A r \in DOMAIN rq :
        (Done(r) /\ rq[r].export.status = 404)
            => /\ rq[r].result.kind = "error"
               /\ Includes(rq[r].result.msg, <<"Document", "not", "found">>)
               /\ ~rq[r].delFailed => rq[r].dlDir \notin fsys.dirs
               /\ rq[r].delFailed => rq[r].dlDir \in fsys.dirs
               /\ <<rq[r].dlDir, rq[r].docId>> \notin fsys.files
               /\ ViaHttp(r) => rq[r].status = 404

\* C12 witness: a POST whose export request answered 404 has been answered,
\* and the temporary directory it made is gone.
C12_Witness ==
    \E r \in DOMAIN rq :
        /\ Done(r)
        /\ ViaHttp(r)
        /\ rq[r].export.status = 404
        /\ rq[r].dlDir # 0
        /\ rq[r].dlDir \notin fsys.dirs
        /\ rq[r].status = 404

\* number of tokens of the scheme and host part when the string starts with
\* http(s)://docs.google.com/document/d/, else 0
DocsPrefixLen(s) ==
    IF Len(s) >= 3 /\ s[1] = "http" /\ s[2] = "s" /\ s[3] = HostPath THEN 3
    ELSE IF Len(s) >= 2 /\ s[1] = "http" /\ s[2] = HostPath THEN 2
    ELSE 0

\* the path segment after the host part, up to the next "/" or the end
IdSegment(s) ==
    LET n == DocsPrefixLen(s)
        slashes == {j \in (n + 1)..Len(s) : s[j] = "/"}
    IN  SubSeq(s, n + 1, IF slashes = {} THEN Len(s) ELSE SetMin(slashes) - 1)

\* the string is http(s)://docs.google.com/document/d/ID or .../ID/..., ID not empty
OfDocsForm(url) ==
    /\ url.t = "string"
    /\ DocsPrefixLen(url.s) # 0
    /\ IdSegment(url.s) # <<>>

\* C13: for a URL of the form https://docs.google.com/document/d/ID/...
\* extractDocId returns exactly ID, and for every argument not of this form
\* (text before the scheme, an empty ID segment, not a string) it fails with
\* an invalid-URL error.
C13_IdOnlyFromDocsUrl ==
    \A r \in DOMAIN rq :
        Done(r) =>
            IF OfDocsForm(rq[r].url)
            THEN rq[r].result.kind # "error" /\ rq[r].docId = IdSegment(rq[r].url.s)
            ELSE /\ rq[r].result.kind = "error"
                 /\ rq[r].result.msg \in {MsgEmptyUrl, MsgBadDocsUrl}

\* ------------------------------------------------------------------------
\* further claims about extractStructuredData
\* ------------------------------------------------------------------------

\* what the mapping holds for a key: <<value>>, or <<>> when the key is absent
Held(data, k) == IF k \in DOMAIN data THEN <<data[k]>> ELSE <<>>

\* C14: from the end of pass 1 to the return, the value held for a keyword
\* changes only when pass 2 records a value for it, and then it becomes that
\* value whatever was held before; so the returned value is the last value
\* pass 2 recorded for the keyword, and the pass-1 value (or no key) when
\* pass 2 recorded nothing for it.
C14_SecondPassWins ==
    [][(phase = "pass2" \/ (phase = "pass1" /\ phase' = "pass2"))
        => \A k \in Supplied \cup DOMAIN structuredData \cup DOMAIN structuredData' :
              IF Records /\ pendingLabel.original = k
              THEN Held(structuredData', k) = <<KindValue(Visited)>>
              ELSE Held(structuredData', k) = Held(structuredData, k)]_vars

\* C14 witness: the call has returned, and the value of a keyword differs from
\* the one pass 1 had recorded for it.
C14_Witness ==
    /\ phase = "done"
    /\ \E k \in DOMAIN structuredData :
          LET first == Pass1All(EmptyData, html.dom, normalizedKeywords(keywords))
          IN  k \in DOMAIN first /\ first[k] # structuredData[k]

\* C15 as stated: when the pass-2 scan ends with a label still pending, that
\* keyword is absent from the returned mapping.
C15_PendingAtEndAbsent ==
    (phase = "done" /\ pendingLabel.set)
        => pendingLabel.original \notin DOMAIN structuredData

\* the mapping after pass 1 over the whole document and pass 2 over its first
\* n elements
AfterPrefix(n) ==
    LET nks == normalizedKeywords(keywords)
    IN  Pass2All([data |-> Pass1All(EmptyData, html.dom, nks), pending |-> NoLabel],
                 SubSeq(html.dom, 1, n), nks).data

\* C15 amended: when the pass-2 scan ends with a label still pending, the label
\* element and the elements after it have contributed nothing: the returned
\* mapping is the one pass 1 and the pass-2 scan of the elements before the
\* label produced, so the keyword is absent unless pass 1 or an earlier label
\* element had recorded a value for it, which it then keeps.
C15_PendingAtEndAddsNothing ==
    (phase = "done" /\ pendingLabel.set)
        => structuredData = AfterPrefix(labelPos - 1)

\* C15 witness: the call has returned with a label pending since the last
\* element but one, and the keyword holds a value recorded earlier.
C15_Witness ==
    /\ phase = "done"
    /\ pendingLabel.set
    /\ labelPos > 1
    /\ labelPos < Len(html.dom)
    /\ pendingLabel.original \in DOMAIN structuredData

\* C16: the pending slot holds at most one keyword.  An element visited while
\* a label is pending either leaves that label pending and the mapping as it
\* was (a repeat of the label, or an element without a value) or clears the
\* slot while recording its non-empty value under the label; it never puts
\* another keyword in the slot, whatever its text.  A keyword becomes pending
\* only at a colon-free element equal to it that is visited while the slot is
\* empty, and such a step records nothing.
C16_OnePendingSlot ==
    [][AtPass2Elem
        => /\ pendingLabel'.set => pendingLabel'.original \in Supplied
           /\ IF pendingLabel.set
              THEN /\ pendingLabel' \in {pendingLabel, NoLabel}
                   /\ IF pendingLabel'.set
                      THEN UNCHANGED structuredData
                      ELSE /\ KindValue(Visited) # <<>>
                           /\ Held(structuredData', pendingLabel.original)
                                 = <<KindValue(Visited)>>
              ELSE /\ UNCHANGED structuredData
                   /\ pendingLabel'.set
                        => /\ ~HasColon(ElemText(Visited))
                           /\ normalizeText(ElemText(Visited))
                                 = normalizeText(pendingLabel'.original)]_vars

\* C16 witness: the second element has just been taken as the value of the
\* label in the first element; its text equals another supplied keyword, and
\* no label is pending.
C16_Witness ==
    /\ phase = "pass2"
    /\ pos = 2
    /\ ~pendingLabel.set
    /\ \E k \in DOMAIN structuredData, other \in Supplied :
          /\ normalizeText(ElemText(html.dom[1])) = normalizeText(k)
          /\ normalizeText(other) # normalizeText(k)
          /\ normalizeText(ElemText(html.dom[2])) = normalizeText(other)
          /\ ~HasColon(ElemText(html.dom[2]))
          /\ structuredData[k] = Trim(ElemText(html.dom[2]))

\* what element m gives keyword k inline: <<value>> when the first occurrence
\* of the keyword in the element's text has a colon somewhere after it and
\* the text after the first such colon is not blank, else <<>>
InlineValueAt(m, k) ==
    LET word == Trim(ToLowerCase(k))
        text == Trim(ElemText(html.dom[m]))
        occ == {p \in 1..(Len(text) - Len(word) + 1) :
                   \A i \in 1..Len(word) : LowerChar(text[p + i - 1]) = word[i]}
    IN  IF occ = {} THEN <<>>
        ELSE LET colons == {q \in (SetMin(occ) + Len(word))..Len(text) : text[q] = ":"}
             IN  IF colons = {} THEN <<>>
                 ELSE LET rest == Trim(SubSeq(text, SetMin(colons) + 1, Len(text)))
                      IN  IF rest = <<>> THEN <<>> ELSE <<rest>>

\* C17: throughout pass 1 and at its end, the value held for a keyword is the
\* inline value of the last element visited so far that gives it one (first
\* occurrence of the keyword, a colon after it, a non-blank remainder); the
\* elements that give none leave the earlier value, and the key is absent when
\* no element gave one.
C17_LastInlineWins ==
    phase = "pass1"
        => /\ DOMAIN structuredData \subseteq Supplied
           /\ \A k \in Supplied :
                LET good == {m \in 1..pos : InlineValueAt(m, k) # <<>>}
                IN  Held(structuredData, k)
                        = IF good = {} THEN <<>> ELSE InlineValueAt(SetMax(good), k)

\* C17 witness: pass 1 has visited three elements; the first two give one
\* keyword different inline values, the third mentions the keyword with a
\* colon and nothing after it, and the value held is the second element's.
C17_Witness ==
    /\ phase = "pass1"
    /\ pos = 3
    /\ \E k \in Supplied :
          /\ InlineValueAt(1, k) # <<>>
          /\ InlineValueAt(2, k) # <<>>
          /\ InlineValueAt(1, k) # InlineValueAt(2, k)
          /\ InlineValueAt(3, k) = <<>>
          /\ HasColon(ElemText(html.dom[3]))
          /\ Includes(ToLowerCase(ElemText(html.dom[3])), Trim(ToLowerCase(k)))
          /\ Held(structuredData, k) = InlineValueAt(2, k)

\* ------------------------------------------------------------------------
\* claims about the order of the steps and about cleanup
\* ------------------------------------------------------------------------

\* the steps of one call that succeeds: each begins and ends once, in order
FullTrace == <<"fetch", "fetched", "convert", "converted", "extract", "extracted">>

IsPrefix(s, t) == Len(s) <= Len(t) /\ \A i \in 1..Len(s) : s[i] = t[i]

\* request r has run its steps in order, once each, and stopped at the first
\* that failed
StepsInOrder(r) ==
    /\ IsPrefix(rq[r].trace, FullTrace)
    /\ rq[r].nExport <= 1
    /\ rq[r].nExport = 1 => rq[r].trace # <<>>
    /\ ~rq[r].invoked => rq[r].trace = <<>>
    /\ rq[r].pc = "fetching" => rq[r].trace = SubSeq(FullTrace, 1, 1)
    /\ rq[r].pc = "downloaded" => rq[r].trace = SubSeq(FullTrace, 1, 2)
    /\ rq[r].pc = "converting" => rq[r].trace = SubSeq(FullTrace, 1, 3)
    /\ (Done(r) /\ rq[r].invoked)
        => IF rq[r].trace = FullTrace
           THEN /\ rq[r].result.kind = "ok"
                /\ ViaHttp(r) => rq[r].status = 200
           ELSE /\ Len(rq[r].trace) \in {1, 3, 5}
                /\ rq[r].result.kind = "error"
                /\ ViaHttp(r) => /\ rq[r].status \in {400, 403, 404, 500}
                                 /\ rq[r].error = rq[r].result.msg
                                 /\ rq[r].error # <<>>

\* C18: within one request the steps happen in the order fetch, convert,
\* extract, each at most once: at most one export request is issued, the
\* conversion begins only after the download succeeded, the extraction only
\* after the conversion succeeded, the first failing step ends the request
\* with an error response, and nothing runs for a request that has ended.
C18_InOrderNoRetry ==
    [][\A r \in DOMAIN rq :
          /\ StepsInOrder(r)'
          /\ Done(r) => rq'[r] = rq[r]]_vars

\* C18 witness: one POST was answered 200 after all three steps, with one
\* export request.
C18_Witness ==
    \E r \in DOMAIN rq :
        /\ Done(r)
        /\ ViaHttp(r)
        /\ rq[r].trace = FullTrace
        /\ rq[r].nExport = 1
        /\ rq[r].status = 200

\* C19: what downloadDoc and processGoogleDoc propagate does not depend on the
\* cleanup deletions: a finished call settles with exactly the error thrown, or
\* the value being returned, when cleanup began, whether unlink and rmdir
\* succeeded or failed, and POST /parse-doc answers with the status of that
\* outcome; no deletion error escapes.
C19_CleanupNeverMasks ==
    \A r \in DOMAIN rq :
        (Done(r) /\ rq[r].invoked)
            => /\ rq[r].result = rq[r].outcome
               /\ rq[r].result.msg # MsgDeleteFailed
               /\ ~rq[r].cleanupRaised
               /\ ViaHttp(r) => rq[r].status = IF rq[r].outcome.kind = "ok" THEN 200
                                               ELSE StatusFor(rq[r].outcome.msg)

\* C19 witness: a POST that succeeded although a deletion failed during its
\* cleanup, so that its temporary directory is still there.
C19_Witness ==
    \E r \in DOMAIN rq :
        /\ Done(r)
        /\ ViaHttp(r)
        /\ rq[r].delFailed
        /\ rq[r].dlDir \in fsys.dirs
        /\ rq[r].result.kind = "ok"
        /\ rq[r].status = 200

\* C20: the step that takes in a request whose url fails document-ID
\* extraction ends the request and leaves the filesystem as it was: no
\* temporary directory is made and no export request is issued, and when the
\* url reached downloadDoc the error is the invalid-URL error.
C20_BadUrlTouchesNothing ==
    [][\A r \in DOMAIN rq :
          (rq[r].pc = "idle" /\ rq'[r].pc # "idle" /\ BadUrl(rq'[r].url))
              => /\ fsys' = fsys
                 /\ rq'[r].pc = "done"
                 /\ rq'[r].nExport = 0
                 /\ rq'[r].dlDir = 0
                 /\ rq'[r].invoked
                      => /\ rq'[r].result.kind = "error"
                         /\ rq'[r].result.msg \in {MsgEmptyUrl, MsgBadDocsUrl}]_vars

\* C20 witness: a POST with a blank url went through to downloadDoc, which
\* threw the invalid-URL error; no directory exists and no export was issued.
C20_Witness ==
    \E r \in DOMAIN rq :
        /\ Done(r)
        /\ ViaHttp(r)
        /\ rq[r].invoked
        /\ BadUrl(rq[r].url)
        /\ rq[r].result.msg = MsgEmptyUrl
        /\ rq[r].nExport = 0
        /\ fsys.dirs = {}

====
